---- MODULE Spec2Model ----
(***************************************************************************)
(* Model of the tiered plant-identification resolver, process_plant.py.    *)
(* Text is a sequence of one-character strings, so that strip(), lower(),  *)
(* splitext(), startswith() and the substring test are computed as Python  *)
(* computes them.  A Python value that may be None is a record             *)
(* [t |-> "None" | "str", s |-> text].                                     *)
(***************************************************************************)
EXTENDS Integers, Sequences, FiniteSets, TLC

VARIABLES
    env,                  \* the mocked outcomes of the external collaborators
    image_name,           \* os.environ.get('IMAGE_NAME')
    row_id,               \* os.environ.get('ROW_ID')
    pc,                   \* position of the run inside main()
    image_data,           \* the bytes download_image_from_drive returned, or None
    text_source,          \* the hint, or None
    hint_src,             \* provenance of text_source: "filename", "ocr" or "none"
    final_result_string,  \* main()'s final_result_string
    calls,                \* external calls made so far, in order, with what they returned
    handed,               \* the result strings handed to update_coda_row
    coda_env,             \* what update_coda_row read from the environment
    escaped,              \* TRUE when an exception left main()
    extracted_text,       \* OCR-only variant: the text is_valid_plant_name is given
    validity              \* OCR-only variant: what is_valid_plant_name returned

vars == <<env, image_name, row_id, pc, image_data, text_source, hint_src,
          final_result_string, calls, handed, coda_env, escaped, extracted_text,
          validity>>

\* the variables of the OCR-only variant
variant_vars == <<extracted_text, validity>>

----------------------------------------------------------------------------
(* Python values *)

NoneVal == [t |-> "None", s |-> <<>>]

Str(s) == [t |-> "str", s |-> s]

\* Python truthiness of an optional string: None and "" are falsy
Truthy(v) == v.t = "str" /\ v.s # <<>>

----------------------------------------------------------------------------
(* String functions of the Python library, on sequences of characters *)

Whitespace == {" ", "\n", "\t", "\r"}

Digits == {"0", "1", "2", "3", "4", "5", "6", "7", "8", "9"}

UpperLetters == <<"A", "B", "C", "D", "E", "F", "G", "H", "I", "J", "K", "L", "M",
                  "N", "O", "P", "Q", "R", "S", "T", "U", "V", "W", "X", "Y", "Z">>

LowerLetters == <<"a", "b", "c", "d", "e", "f", "g", "h", "i", "j", "k", "l", "m",
                  "n", "o", "p", "q", "r", "s", "t", "u", "v", "w", "x", "y", "z">>

\* str.lower() of one character
lowerChar(c) ==
    IF \E i \in 1..26 : UpperLetters[i] = c
    THEN LowerLetters[CHOOSE i \in 1..26 : UpperLetters[i] = c]
    ELSE c

\* str.lower()
lower(s) == [i \in 1..Len(s) |-> lowerChar(s[i])]

\* str.isdigit() of one character
isdigit(c) == c \in Digits

\* str.startswith(prefix)
startswith(s, p) == Len(p) <= Len(s) /\ SubSeq(s, 1, Len(p)) = p

\* the Python test  sub in s
Contains(sub, s) ==
    \E i \in 1..(Len(s) - Len(sub) + 1) : SubSeq(s, i, i + Len(sub) - 1) = sub

RECURSIVE lstrip(_)
lstrip(s) == IF s # <<>> /\ Head(s) \in Whitespace THEN lstrip(Tail(s)) ELSE s

RECURSIVE rstrip(_)
rstrip(s) ==
    IF s # <<>> /\ s[Len(s)] \in Whitespace THEN rstrip(SubSeq(s, 1, Len(s) - 1)) ELSE s

\* str.strip()
strip(s) == rstrip(lstrip(s))

\* index of the last occurrence of character c in s, 0 when there is none
rfind(s, c) ==
    IF \E i \in 1..Len(s) : s[i] = c
    THEN CHOOSE i \in 1..Len(s) : s[i] = c /\ \A j \in (i + 1)..Len(s) : s[j] # c
    ELSE 0

\* os.path.splitext(p)[0]: cut at the last dot of the last path component,
\* unless only dots precede it in that component
splitext0(p) ==
    LET sepIndex == rfind(p, "/")
        dotIndex == rfind(p, ".")
    IN  IF dotIndex > sepIndex /\ \E k \in (sepIndex + 1)..(dotIndex - 1) : p[k] # "."
        THEN SubSeq(p, 1, dotIndex - 1)
        ELSE p

\* " ".join(s.splitlines()) for text whose line breaks are "\n"
RECURSIVE joinlines(_)
joinlines(s) ==
    IF s = <<>> THEN <<>>
    ELSE IF Head(s) = "\n"
         THEN IF Tail(s) = <<>> THEN <<>> ELSE <<" ">> \o joinlines(Tail(s))
         ELSE <<Head(s)>> \o joinlines(Tail(s))

----------------------------------------------------------------------------
(* Literals of the program *)

Unknown == <<"U", "n", "k", "n", "o", "w", "n">>

GenericPrefixes ==
    { <<"i", "m", "g", "_">>, <<"d", "s", "c", "_">>, <<"i", "m", "a", "g", "e">>,
      <<"s", "c", "r", "e", "e", "n", "s", "h", "o", "t">> }

CriticalPrefix ==
    <<"C", "r", "i", "t", "i", "c", "a", "l", " ", "W", "o", "r", "k", "f", "l", "o", "w",
      " ", "E", "r", "r", "o", "r", ":", " ">>

ExhaustionString ==
    <<"C", "o", "m", "p", "l", "e", "t", "e", " ", "f", "a", "i", "l", "u", "r", "e", ":",
      " ", "A", "l", "l", " ", "i", "d", "e", "n", "t", "i", "f", "i", "c", "a", "t", "i",
      "o", "n", " ", "m", "e", "t", "h", "o", "d", "s", " ", "f", "a", "i", "l", "e", "d",
      ".">>

\* str(KeyError('GOOGLE_DRIVE_API_KEY')) and str(KeyError('GEMINI_API_KEY'))
DriveKeyError ==
    <<"'", "G", "O", "O", "G", "L", "E", "_", "D", "R", "I", "V", "E", "_", "A", "P", "I",
      "_", "K", "E", "Y", "'">>

GeminiKeyError ==
    <<"'", "G", "E", "M", "I", "N", "I", "_", "A", "P", "I", "_", "K", "E", "Y", "'">>

----------------------------------------------------------------------------
(* The mocked collaborators: what each external call does in this run *)

MaxNames == 10

ImageNameList ==
    << Str(<<"R", "o", "s", "e", ".", "j", "p", "g">>),
       Str(<<"I", "M", "G", "_", "2", "0", "3", "1", ".", "j", "p", "g">>),
       NoneVal,
       Str(<<"a", "b", "c", ".", "j", "p", "g">>),
       Str(<<"O", "a", "k", "2", ".", "j", "p", "g">>),
       Str(<<"I", "m", "a", "g", "e", "r", "y", ".", "p", "n", "g">>),
       Str(<<"S", "c", "r", "e", "e", "n", "s", "h", "o", "t", ".", "p", "n", "g">>),
       Str(<<"D", "S", "C", "_", "a", ".", "j", "p", "g">>),
       Str(<<".", "j", "p", "e", "g">>),
       Str(<<>>),
       Str(<<"f", "e", "r", "n">>),
       Str(<<"i", "m", "g", "_", "x">>) >>

ImageNames ==
    { ImageNameList[i] : i \in 1..(IF MaxNames < Len(ImageNameList)
                                   THEN MaxNames ELSE Len(ImageNameList)) }

RowIds == { NoneVal, Str(<<"i", "-", "r", "1">>) }

\* requests.get(...).content, or the fault raised by the lookup of the key,
\* the transport or raise_for_status()
DownloadOutcomes ==
    { [ok |-> TRUE, msg |-> <<>>],
      [ok |-> FALSE, msg |-> DriveKeyError],
      [ok |-> FALSE, msg |-> <<"4", "0", "4">>] }

\* the OCR service: a fault, a response without textAnnotations, or a description
OcrOutcomes ==
    { [kind |-> "error", text |-> <<>>],
      [kind |-> "none", text |-> <<>>],
      [kind |-> "text", text |-> <<"R", "o", "s", "a", "\n", "c", "a", "n", "a", " ">>],
      [kind |-> "text", text |-> <<" ", "\n">>] }

\* the text model: GEMINI_API_KEY unset, a fault of generate_content, or response.text
CorrectorOutcomes ==
    { [kind |-> "noconfig", text |-> <<>>],
      [kind |-> "error", text |-> <<>>],
      [kind |-> "text", text |-> Unknown],
      [kind |-> "text", text |-> <<" ", "n", "o", ":", " ">> \o Unknown \o <<".", "\n">>],
      [kind |-> "text", text |-> <<"R", "o", "s", "a">>],
      [kind |-> "text", text |-> <<" ", "R", "o", "s", "a", " ", "s", "p", "\n">>],
      [kind |-> "text", text |-> <<"u", "n", "k", "n", "o", "w", "n">>],
      [kind |-> "text", text |-> <<>>],
      [kind |-> "text", text |-> <<" ", "\n">>] }

\* the species service: a fault, an empty result list, a result without the
\* species field, or a first result with its scientificNameWithoutAuthor
PlantnetOutcomes ==
    { [kind |-> "raise", name |-> <<>>],
      [kind |-> "empty", name |-> <<>>],
      [kind |-> "malformed", name |-> <<>>],
      [kind |-> "name", name |-> <<"F", "i", "c", "u", "s">>],
      [kind |-> "name", name |-> <<>>] }

\* the vision model: GEMINI_API_KEY unset, a fault of generate_content, or response.text
VisionOutcomes ==
    { [kind |-> "noconfig", text |-> <<>>],
      [kind |-> "error", text |-> <<>>],
      [kind |-> "text", text |-> <<" ", "A", "c", "e", "r", "\n">>],
      [kind |-> "text", text |-> Unknown],
      [kind |-> "text", text |-> <<>>] }

\* the PUT of the sink: a 2xx status, another status, or a transport fault
PutOutcomes == { "ok", "status", "raise" }

----------------------------------------------------------------------------
(* The functions of process_plant.py *)

\* what a call gives back: a raised exception with its message, or a value
Raised(m) == [raised |-> TRUE, msg |-> m, ret |-> NoneVal]

Returned(v) == [raised |-> FALSE, msg |-> <<>>, ret |-> v]

download_image_from_drive(o) ==
    IF o.ok THEN Returned(Str(<<"b", "y", "t", "e", "s">>)) ELSE Raised(o.msg)

\* every fault is caught inside and becomes ""
extract_text_from_image(o) ==
    IF o.kind = "text" THEN Returned(Str(strip(o.text))) ELSE Returned(Str(<<>>))

\* is_generic_name without the digit test
is_generic_name_nodigit(file_name) ==
    IF ~Truthy(file_name) THEN TRUE
    ELSE LET name_part == lower(splitext0(file_name.s))
         IN  \/ Len(name_part) <= 3
             \/ \E p \in GenericPrefixes : startswith(name_part, p)

is_generic_name(file_name) ==
    IF ~Truthy(file_name) THEN TRUE
    ELSE LET name_part == lower(splitext0(file_name.s))
         IN  \/ Len(name_part) <= 3
             \/ \E i \in 1..Len(name_part) : isdigit(name_part[i])
             \/ \E p \in GenericPrefixes : startswith(name_part, p)

\* get_name_from_text_hint testing  result == "Unknown"  instead of  "Unknown" in result
get_name_from_text_hint_eq(o) ==
    IF o.kind = "noconfig" THEN Raised(GeminiKeyError)
    ELSE IF o.kind = "error" THEN Returned(NoneVal)
    ELSE LET result == strip(o.text)
         IN  IF result = Unknown THEN Returned(NoneVal) ELSE Returned(Str(result))

\* genai.configure reads os.environ['GEMINI_API_KEY'] outside the try block
get_name_from_text_hint(o) ==
    IF o.kind = "noconfig" THEN Raised(GeminiKeyError)
    ELSE IF o.kind = "error" THEN Returned(NoneVal)
    ELSE LET result == strip(o.text)
         IN  IF Contains(Unknown, result) THEN Returned(NoneVal) ELSE Returned(Str(result))

\* get_name_from_image applying the sentinel test of the corrector
get_name_from_image_sentinel(o) ==
    IF o.kind = "noconfig" THEN Raised(GeminiKeyError)
    ELSE IF o.kind = "error" THEN Returned(NoneVal)
    ELSE LET result == strip(o.text)
         IN  IF Contains(Unknown, result) THEN Returned(NoneVal) ELSE Returned(Str(result))

get_name_from_image(o) ==
    IF o.kind = "noconfig" THEN Raised(GeminiKeyError)
    ELSE IF o.kind = "error" THEN Returned(NoneVal)
    ELSE Returned(Str(strip(o.text)))

\* lines 135-140 with the empty result list raising out of the tier chain
plantnet_step_empty_fatal(o, frs) ==
    IF o.kind = "name" THEN Str(o.name)
    ELSE IF o.kind = "empty" THEN Str(CriticalPrefix)
    ELSE frs

\* lines 135-140 of main(): the species call inside its own try/except; the
\* value final_result_string has afterwards, given the value frs it had before
plantnet_step(o, frs) ==
    IF o.kind = "name" THEN Str(o.name) ELSE frs

\* a fall-through test that lets a later tier run after a name was found
falls_through_always(frs) == TRUE

\* line 133 and line 142 of main(): the fall-through test
falls_through(frs) == ~Truthy(frs)

\* a catch-all that drops the message of the fault
critical_error_nomsg(msg) == Str(CriticalPrefix)

\* line 146 of main(): the catch-all of the tier chain
critical_error(msg) == Str(CriticalPrefix \o msg)

\* lines 148-149 without the test: the terminal string replaces whatever was found
exhaustion_always(frs) == Str(ExhaustionString)

\* lines 148-149 testing  is None  instead of  not final_result_string
exhaustion_none_only(frs) == IF frs.t = "None" THEN Str(ExhaustionString) ELSE frs

\* lines 148-149 of main()
exhaustion(frs) == IF ~Truthy(frs) THEN Str(ExhaustionString) ELSE frs

\* the environment before update_coda_row has read it
NotRead == [read |-> FALSE, token |-> FALSE, doc_id |-> FALSE, table_id |-> FALSE]

\* line 15 without the row identifier
coda_ready_no_row(token, doc_id, table_id, rid) == token /\ doc_id /\ table_id

\* line 15 of update_coda_row: all([token, doc_id, table_id, row_id]); the three
\* flags say whether the variable is set to a non-empty value
coda_ready(token, doc_id, table_id, rid) == token /\ doc_id /\ table_id /\ Truthy(rid)

\* one entry of the call log
Call(fn, src, hint, res) ==
    [fn |-> fn, src |-> src, hint |-> hint, raised |-> res.raised, ret |-> res.ret]

----------------------------------------------------------------------------
(* main() *)

Init ==
    /\ env \in [download : DownloadOutcomes, ocr : OcrOutcomes,
                corrector : CorrectorOutcomes, plantnet : PlantnetOutcomes,
                vision : VisionOutcomes]
    /\ image_name \in ImageNames
    /\ row_id \in RowIds
    /\ pc = "download"
    /\ image_data = NoneVal
    /\ text_source = NoneVal
    /\ hint_src = "none"
    /\ final_result_string = NoneVal
    /\ calls = <<>>
    /\ handed = <<>>
    /\ coda_env = NotRead
    /\ escaped = FALSE
    /\ extracted_text = <<>>
    /\ validity = "unchecked"

\* line 117; a fault goes to the handler of lines 145-146
Download ==
    /\ pc = "download"
    /\ LET res == download_image_from_drive(env.download)
       IN  /\ calls' = Append(calls, Call("download", "none", <<>>, res))
           /\ IF res.raised
              THEN /\ final_result_string' = critical_error(res.msg)
                   /\ pc' = "exhausted"
                   /\ UNCHANGED image_data
              ELSE /\ image_data' = res.ret
                   /\ pc' = "hint"
                   /\ UNCHANGED final_result_string
    /\ UNCHANGED <<coda_env, variant_vars>>
    /\ UNCHANGED <<env, image_name, row_id, text_source, hint_src, handed, escaped>>

\* lines 120-122: the file name is the hint
FilenameHint ==
    /\ pc = "hint"
    /\ Truthy(image_name) /\ ~is_generic_name(image_name)
    /\ text_source' = Str(splitext0(image_name.s))
    /\ hint_src' = "filename"
    /\ pc' = "text"
    /\ UNCHANGED <<coda_env, variant_vars>>
    /\ UNCHANGED <<env, image_name, row_id, image_data, final_result_string, calls,
                   handed, escaped>>

\* lines 123-128: the file name is generic, the hint comes from OCR
OcrHint ==
    /\ pc = "hint"
    /\ ~(Truthy(image_name) /\ ~is_generic_name(image_name))
    /\ LET res == extract_text_from_image(env.ocr)
           ocr_text == res.ret
       IN  /\ calls' = Append(calls, Call("ocr", "none", <<>>, res))
           /\ IF Truthy(ocr_text)
              THEN /\ text_source' = Str(joinlines(ocr_text.s))
                   /\ hint_src' = "ocr"
              ELSE UNCHANGED <<text_source, hint_src>>
    /\ pc' = "text"
    /\ UNCHANGED <<coda_env, variant_vars>>
    /\ UNCHANGED <<env, image_name, row_id, image_data, final_result_string, handed,
                   escaped>>

\* lines 130-131 without the test of line 130: the corrector is called with whatever
\* text_source holds
HintCorrectorUngated ==
    /\ pc = "text"
    /\ LET res == get_name_from_text_hint(env.corrector)
       IN  /\ calls' = Append(calls, Call("corrector", hint_src, text_source.s, res))
           /\ IF res.raised
              THEN /\ final_result_string' = critical_error(res.msg)
                   /\ pc' = "exhausted"
              ELSE /\ final_result_string' = res.ret
                   /\ pc' = "lookup"
    /\ UNCHANGED <<coda_env, variant_vars>>
    /\ UNCHANGED <<env, image_name, row_id, image_data, text_source, hint_src, handed,
                   escaped>>

\* lines 130-131 with a hint
HintCorrector ==
    /\ pc = "text"
    /\ Truthy(text_source)
    /\ LET res == get_name_from_text_hint(env.corrector)
       IN  /\ calls' = Append(calls, Call("corrector", hint_src, text_source.s, res))
           /\ IF res.raised
              THEN /\ final_result_string' = critical_error(res.msg)
                   /\ pc' = "exhausted"
              ELSE /\ final_result_string' = res.ret
                   /\ pc' = "lookup"
    /\ UNCHANGED <<coda_env, variant_vars>>
    /\ UNCHANGED <<env, image_name, row_id, image_data, text_source, hint_src, handed,
                   escaped>>

\* line 130 without a hint
NoHint ==
    /\ pc = "text"
    /\ ~Truthy(text_source)
    /\ pc' = "lookup"
    /\ UNCHANGED <<coda_env, variant_vars>>
    /\ UNCHANGED <<env, image_name, row_id, image_data, text_source, hint_src,
                   final_result_string, calls, handed, escaped>>

\* lines 133-140 with a failed species call tried again
SpeciesLookupRetry ==
    /\ pc = "lookup"
    /\ falls_through(final_result_string)
    /\ LET after == plantnet_step(env.plantnet, final_result_string)
           res == IF env.plantnet.kind \in {"raise", "malformed"}
                  THEN Raised(<<>>) ELSE Returned(after)
       IN  /\ calls' = Append(calls, Call("plantnet", "none", <<>>, res))
           /\ final_result_string' = after
           /\ pc' = IF res.raised /\ Len(calls) < 4 THEN "lookup" ELSE "vision"
    /\ UNCHANGED <<coda_env, variant_vars>>
    /\ UNCHANGED <<env, image_name, row_id, image_data, text_source, hint_src, handed,
                   escaped>>

\* lines 133-140
SpeciesLookup ==
    /\ pc = "lookup"
    /\ falls_through(final_result_string)
    /\ LET after == plantnet_step(env.plantnet, final_result_string)
           res == IF env.plantnet.kind \in {"raise", "malformed"}
                  THEN Raised(<<>>) ELSE Returned(after)
       IN  /\ calls' = Append(calls, Call("plantnet", "none", <<>>, res))
           /\ final_result_string' = after
    /\ pc' = "vision"
    /\ UNCHANGED <<coda_env, variant_vars>>
    /\ UNCHANGED <<env, image_name, row_id, image_data, text_source, hint_src, handed,
                   escaped>>

\* line 133 with a name already found
SkipLookup ==
    /\ pc = "lookup"
    /\ ~falls_through(final_result_string)
    /\ pc' = "vision"
    /\ UNCHANGED <<coda_env, variant_vars>>
    /\ UNCHANGED <<env, image_name, row_id, image_data, text_source, hint_src,
                   final_result_string, calls, handed, escaped>>

\* lines 142-143
VisionNamer ==
    /\ pc = "vision"
    /\ falls_through(final_result_string)
    /\ LET res == get_name_from_image(env.vision)
       IN  /\ calls' = Append(calls, Call("vision", "none", <<>>, res))
           /\ final_result_string' =
                  IF res.raised THEN critical_error(res.msg) ELSE res.ret
    /\ pc' = "exhausted"
    /\ UNCHANGED <<coda_env, variant_vars>>
    /\ UNCHANGED <<env, image_name, row_id, image_data, text_source, hint_src, handed,
                   escaped>>

\* line 142 with a name already found
SkipVision ==
    /\ pc = "vision"
    /\ ~falls_through(final_result_string)
    /\ pc' = "exhausted"
    /\ UNCHANGED <<coda_env, variant_vars>>
    /\ UNCHANGED <<env, image_name, row_id, image_data, text_source, hint_src,
                   final_result_string, calls, handed, escaped>>

\* lines 148-149
Exhausted ==
    /\ pc = "exhausted"
    /\ final_result_string' = exhaustion(final_result_string)
    /\ pc' = "sink"
    /\ UNCHANGED <<coda_env, variant_vars>>
    /\ UNCHANGED <<env, image_name, row_id, image_data, text_source, hint_src, calls,
                   handed, escaped>>

\* lines 151-152 and update_coda_row: token, doc_id and table_id are read from the
\* environment at the call; the PUT is not inside any try block
Sink ==
    /\ pc = "sink"
    /\ handed' = Append(handed, final_result_string)
    /\ \E token \in BOOLEAN, doc_id \in BOOLEAN, table_id \in BOOLEAN, put \in PutOutcomes :
          /\ coda_env' = [read |-> TRUE, token |-> token, doc_id |-> doc_id,
                          table_id |-> table_id]
          /\ IF ~coda_ready(token, doc_id, table_id, row_id)
             THEN UNCHANGED <<calls, escaped>>
             ELSE /\ calls' = Append(calls, Call("put", "none", final_result_string.s,
                                 IF put = "raise" THEN Raised(<<>>) ELSE Returned(NoneVal)))
                  /\ escaped' = (put = "raise")
    /\ pc' = "done"
    /\ UNCHANGED variant_vars
    /\ UNCHANGED <<env, image_name, row_id, image_data, text_source, hint_src,
                   final_result_string>>

Next ==
    \/ Download
    \/ FilenameHint
    \/ OcrHint
    \/ HintCorrector
    \/ NoHint
    \/ SpeciesLookup
    \/ SkipLookup
    \/ VisionNamer
    \/ SkipVision
    \/ Exhausted
    \/ Sink

Spec == Init /\ [][Next]_vars

\* the Resolution a finished run handed to the sink
Resolution == handed[1]

----------------------------------------------------------------------------
(* The OCR-only variant, .github/workflows/process_plant.py: is_valid_plant_name *)

MinTextLen == 3

MaxTextLen == 100

gibberish_patterns ==
    { <<"s", "c", "r", "e", "e", "n", "s", "h", "o", "t">>, <<"i", "m", "a", "g", "e">>,
      <<"p", "h", "o", "t", "o">>, <<"#", "#", "#">>, <<"?", "?", "?">> }

\* is_valid_plant_name rejecting a text of exactly MaxTextLen characters
is_valid_plant_name_ge(text) ==
    IF Len(text) < MinTextLen \/ Len(text) >= MaxTextLen THEN FALSE
    ELSE LET text_lower == lower(text)
         IN  ~\E pattern \in gibberish_patterns : Contains(pattern, text_lower)

is_valid_plant_name(text) ==
    IF Len(text) < MinTextLen \/ Len(text) > MaxTextLen THEN FALSE
    ELSE LET text_lower == lower(text)
         IN  ~\E pattern \in gibberish_patterns : Contains(pattern, text_lower)

MaxPad == 101

\* a text of n letters
Pad(n) == [i \in 1..n |-> "a"]

\* words that the texts given to is_valid_plant_name may end with
Endings ==
    { <<>>,
      <<"F", "i", "c", "u", "s">>,
      <<"s", "c", "r", "e", "e", "n", "s", "h", "o", "t">>,
      <<"P", "h", "o", "t", "o">>,
      <<"c", "a", "m", "e", "r", "a">>,
      <<"I", "m", "a", "g", "e">>,
      <<"#", "#", "#">>,
      <<"?", "?", "?">>,
      <<"?", "?">> }

\* the stripped OCR texts of line 23
ExtractedTexts == { Pad(n) \o e : n \in 0..MaxPad, e \in Endings }

InitValid ==
    /\ env = [download |-> [ok |-> TRUE, msg |-> <<>>],
              ocr |-> [kind |-> "none", text |-> <<>>],
              corrector |-> [kind |-> "error", text |-> <<>>],
              plantnet |-> [kind |-> "empty", name |-> <<>>],
              vision |-> [kind |-> "error", text |-> <<>>]]
    /\ image_name = NoneVal
    /\ row_id = NoneVal
    /\ pc = "variant"
    /\ image_data = NoneVal
    /\ text_source = NoneVal
    /\ hint_src = "none"
    /\ final_result_string = NoneVal
    /\ calls = <<>>
    /\ handed = <<>>
    /\ coda_env = NotRead
    /\ escaped = FALSE
    /\ extracted_text \in ExtractedTexts
    /\ validity = "unchecked"

\* line 79 of the variant's main(): the test of the extracted text
ValidateText ==
    /\ pc = "variant"
    /\ validity = "unchecked"
    /\ validity' = IF is_valid_plant_name(extracted_text) THEN "valid" ELSE "invalid"
    /\ UNCHANGED <<env, image_name, row_id, pc, image_data, text_source, hint_src,
                   final_result_string, calls, handed, coda_env, escaped, extracted_text>>

NextValid == ValidateText

SpecValid == InitValid /\ [][NextValid]_vars

----------------------------------------------------------------------------
(* Vocabulary of the properties *)

Finished == pc = "done"

\* the place of a call in the priority order of the tiers, 0 for a call that is no tier
TierRank(c) ==
    IF c.fn = "corrector" THEN (IF c.src = "filename" THEN 1 ELSE 2)
    ELSE IF c.fn = "plantnet" THEN 3
    ELSE IF c.fn = "vision" THEN 4
    ELSE 0

TierCalls == { i \in DOMAIN calls : TierRank(calls[i]) > 0 }

\* the call returned a resolved name: no fault, not None, not empty
ResolvedCall(c) == ~c.raised /\ Truthy(c.ret)

DownloadFailed == \E i \in DOMAIN calls : calls[i].fn = "download" /\ calls[i].raised

IsCritical(v) == v.t = "str" /\ startswith(v.s, CriticalPrefix)

\* C1: a finished run invoked its tiers in the order filename hint, OCR hint,
\* Species Lookup, Vision Namer, and its Resolution is the name returned by the
\* first tier that returned a resolved name; when the corrector resolved the
\* filename hint and Species Lookup would give another name, the corrector's wins.
C1_PriorityOrder ==
    Finished =>
        /\ \A i, j \in TierCalls : i < j => TierRank(calls[i]) < TierRank(calls[j])
        /\ \A i \in TierCalls :
              (ResolvedCall(calls[i]) /\ \A j \in TierCalls : j < i => ~ResolvedCall(calls[j]))
                  => Resolution = calls[i].ret
        /\ \A i \in TierCalls :
              (/\ TierRank(calls[i]) = 1 /\ ResolvedCall(calls[i])
               /\ env.plantnet.kind = "name" /\ env.plantnet.name # <<>>
               /\ env.plantnet.name # calls[i].ret.s)
                  => Resolution = calls[i].ret

C1_Witness ==
    /\ Finished
    /\ \E i \in TierCalls :
          /\ TierRank(calls[i]) = 1 /\ ResolvedCall(calls[i])
          /\ env.plantnet.kind = "name" /\ env.plantnet.name # <<>>
          /\ env.plantnet.name # calls[i].ret.s
          /\ Resolution = calls[i].ret

\* C2: every finished run ended without an exception leaving main() and handed the
\* sink exactly one Resolution, a non-empty string.
C2_AlwaysOneResolution ==
    Finished => /\ ~escaped
                /\ Len(handed) = 1
                /\ Truthy(handed[1])

\* C3: when the corrector left a filename hint unresolved, the OCR extractor is
\* invoked before Species Lookup is.
C3_OcrAfterUnresolvedFilenameHint ==
    \A i, j \in DOMAIN calls :
        (/\ calls[i].fn = "corrector" /\ calls[i].src = "filename"
         /\ ~calls[i].raised /\ ~Truthy(calls[i].ret)
         /\ calls[j].fn = "plantnet")
            => \E k \in DOMAIN calls : k < j /\ calls[k].fn = "ocr"

\* C4: with a non-generic image name, the corrector is invoked on the filename hint
\* before the image is downloaded.
C4_FilenameTierBeforeDownload ==
    \A j \in DOMAIN calls :
        (/\ Truthy(image_name) /\ ~is_generic_name(image_name)
         /\ calls[j].fn = "download")
            => \E i \in DOMAIN calls :
                  i < j /\ calls[i].fn = "corrector" /\ calls[i].src = "filename"

\* every tier that ran ended unresolved and no fault reached the catch-all
AllTiersUnresolved ==
    /\ Finished
    /\ \A i \in DOMAIN calls : calls[i].fn \in {"download", "corrector", "vision"}
                                   => ~calls[i].raised
    /\ \A i \in TierCalls : ~ResolvedCall(calls[i])

\* the terminal string as the specification spells it
SpecExhaustionString ==
    <<"C", "o", "m", "p", "l", "e", "t", "e", " ", "f", "a", "i", "l", "u", "r", "e", ":",
      " ", "a", "l", "l", " ", "i", "d", "e", "n", "t", "i", "f", "i", "c", "a", "t", "i",
      "o", "n", " ", "m", "e", "t", "h", "o", "d", "s", " ", "f", "a", "i", "l", "e", "d",
      ".">>

\* C5, as claimed: when all tiers end unresolved and no exception escapes the chain,
\* the Resolution is "Complete failure: all identification methods failed."
C5_ExhaustionLowercase ==
    AllTiersUnresolved => Resolution = Str(SpecExhaustionString)

\* C5, amended: when all tiers that ran end unresolved and no exception escapes the
\* chain, the Resolution is, character for character, "Complete failure: All
\* identification methods failed." (capital A in All), 52 characters long.
C5_ExhaustionString ==
    AllTiersUnresolved =>
        /\ Resolution = Str(ExhaustionString)
        /\ Len(Resolution.s) = Len(SpecExhaustionString)
        /\ \A k \in 1..Len(Resolution.s) :
              Resolution.s[k] = (IF k = 19 THEN "A" ELSE SpecExhaustionString[k])

C5_Witness ==
    /\ AllTiersUnresolved
    /\ \E i \in TierCalls : calls[i].fn = "vision" /\ calls[i].ret = Str(<<>>)
    /\ \E i \in TierCalls : calls[i].fn = "plantnet"
    /\ Resolution = Str(ExhaustionString)

\* C6: the Resolution is a "Critical Workflow Error: " string only when the image
\* fetch failed, never because OCR, the corrector, Species Lookup or the Vision
\* Namer failed.
C6_CriticalOnlyFromFetch ==
    (pc \in {"exhausted", "sink", "done"} /\ IsCritical(final_result_string))
        => DownloadFailed

\* C7: a failure of the sink changes nothing: the run ends without an exception
\* leaving main() and the Resolution handed over is the computed one.
C7_SinkFailureOnlyLogged ==
    Finished => (Resolution = final_result_string /\ ~escaped)

\* C8: when the image download fails, no tier (OCR, corrector, Species Lookup,
\* Vision Namer) is invoked in the run, and the Resolution is "Critical Workflow
\* Error: " followed by the message of the fault.
C8_FetchFailureIsCritical ==
    DownloadFailed =>
        /\ \A i \in DOMAIN calls : calls[i].fn \in {"download", "put"}
        /\ pc # "download"
        /\ Finished => /\ Len(handed) = 1
                       /\ Resolution = Str(CriticalPrefix \o env.download.msg)

C8_Witness ==
    /\ Finished
    /\ DownloadFailed
    /\ Resolution = Str(CriticalPrefix \o <<"4", "0", "4">>)

\* the genericity of a file name in the words of the claim: absent, or a stem of at
\* most 3 characters, or a digit in the stem, or a stem that starts, whatever the
\* case of its letters, with img_, dsc_, image or screenshot
ClaimedGeneric(name) ==
    \/ name.t = "None"
    \/ LET stem == splitext0(name.s)
       IN  \/ Len(stem) <= 3
           \/ \E k \in 1..Len(stem) : stem[k] \in Digits
           \/ \E p \in GenericPrefixes :
                 /\ Len(stem) >= Len(p)
                 /\ \A k \in 1..Len(p) : stem[k] = p[k] \/ lowerChar(stem[k]) = p[k]

\* C9: with a generic image name the corrector is never invoked with a hint that
\* comes from the file name.
C9_GenericNameSkipsTier1 ==
    ClaimedGeneric(image_name) =>
        /\ hint_src # "filename"
        /\ \A i \in DOMAIN calls : ~(calls[i].fn = "corrector" /\ calls[i].src = "filename")

C9_Witness ==
    /\ Finished
    /\ ClaimedGeneric(image_name)
    /\ image_name.t = "str" /\ Len(splitext0(image_name.s)) > 3
    /\ \E i \in DOMAIN calls : calls[i].fn = "corrector" /\ calls[i].src = "ocr"

\* the corrector was called and the text model answered with env.corrector.text
CorrectorAnswered(i) ==
    /\ i \in DOMAIN calls
    /\ calls[i].fn = "corrector"
    /\ env.corrector.kind = "text"

\* after an unresolved call i, the next tier has been invoked once the run is past it
FellThrough(i) ==
    /\ ~ResolvedCall(calls[i])
    /\ pc \in {"vision", "exhausted", "sink", "done"}
           => (Len(calls) > i /\ calls[i + 1].fn = "plantnet")

\* C10, as claimed: a corrector response that contains Unknown is unresolved and the
\* resolver falls through; every other non-empty response is adopted as the name.
C10_EveryOtherNonEmptyAdopted ==
    \A i \in DOMAIN calls : CorrectorAnswered(i) =>
        IF Contains(Unknown, env.corrector.text)
        THEN FellThrough(i)
        ELSE env.corrector.text # <<>> =>
                /\ ResolvedCall(calls[i])
                /\ calls[i].ret.s \in {env.corrector.text, strip(env.corrector.text)}
                /\ Finished => Resolution = calls[i].ret

\* C10, amended: a corrector response that contains Unknown is unresolved and the
\* resolver falls through; every other response that is non-empty once its
\* surrounding whitespace is stripped is adopted, stripped, as the name; a response
\* of whitespace only is unresolved.
C10_SentinelPolicy ==
    \A i \in DOMAIN calls : CorrectorAnswered(i) =>
        IF Contains(Unknown, env.corrector.text) \/ strip(env.corrector.text) = <<>>
        THEN FellThrough(i)
        ELSE /\ ResolvedCall(calls[i])
             /\ calls[i].ret = Str(strip(env.corrector.text))
             /\ Finished => Resolution = Str(strip(env.corrector.text))

C10_Witness ==
    /\ Finished
    /\ \E i \in DOMAIN calls :
          /\ CorrectorAnswered(i)
          /\ Contains(Unknown, env.corrector.text)
          /\ env.corrector.text # Unknown
          /\ calls[i].ret = NoneVal
          /\ Len(calls) > i /\ calls[i + 1].fn = "plantnet"

\* C11: when Species Lookup is reached and gives an empty result list, the call is
\* no fault and leaves the candidate unresolved, final_result_string is no
\* critical-error string after it, and the Vision Namer is the next call.
C11_EmptyLookupFallsToVision ==
    \A i \in DOMAIN calls :
        (calls[i].fn = "plantnet" /\ env.plantnet.kind = "empty") =>
            /\ ~calls[i].raised
            /\ ~Truthy(calls[i].ret)
            /\ pc = "vision" => (~IsCritical(final_result_string)
                                 /\ falls_through(final_result_string))
            /\ pc \in {"exhausted", "sink", "done"}
                  => (Len(calls) > i /\ calls[i + 1].fn = "vision")

C11_Witness ==
    /\ Finished
    /\ env.plantnet.kind = "empty"
    /\ \E i \in DOMAIN calls :
          /\ calls[i].fn = "plantnet"
          /\ Len(calls) > i /\ calls[i + 1].fn = "vision"
          /\ ResolvedCall(calls[i + 1])
          /\ Resolution = calls[i + 1].ret

\* C12: once a tier has returned a resolved name, no adapter (OCR, corrector,
\* Species Lookup, Vision Namer) is invoked later in the run; so Species Lookup and
\* the Vision Namer are invoked only after unresolved tiers.
C12_NoTierAfterResolved ==
    \A i \in TierCalls : \A j \in DOMAIN calls :
        (i < j /\ calls[j].fn \in {"ocr", "corrector", "plantnet", "vision"})
            => ~ResolvedCall(calls[i])

C12_Witness ==
    /\ Finished
    /\ \E i \in TierCalls :
          /\ TierRank(calls[i]) = 1 /\ ResolvedCall(calls[i])
          /\ \A j \in DOMAIN calls :
                calls[j].fn \notin {"ocr", "plantnet", "vision"}
          /\ env.plantnet.kind = "name" /\ env.vision.kind = "text"

\* C13: when the row identifier, the token, the document id or the table id is
\* missing, update_coda_row makes no PUT and returns normally; the run ends with
\* the computed Resolution handed over unchanged.
C13_MissingConfigSkipsWrite ==
    (/\ Finished
     /\ ~(coda_env.token /\ coda_env.doc_id /\ coda_env.table_id /\ Truthy(row_id)))
        => /\ coda_env.read
           /\ \A i \in DOMAIN calls : calls[i].fn # "put"
           /\ ~escaped
           /\ handed = <<final_result_string>>
           /\ Truthy(Resolution)

C13_Witness ==
    /\ Finished
    /\ row_id = NoneVal
    /\ coda_env.token /\ coda_env.doc_id /\ coda_env.table_id
    /\ \A i \in DOMAIN calls : calls[i].fn # "put"
    /\ \E i \in TierCalls : ResolvedCall(calls[i]) /\ Resolution = calls[i].ret

\* the calls of one adapter
CallsOf(fn) == { i \in DOMAIN calls : calls[i].fn = fn }

\* C14: no retries: in one run the download, the OCR call, Species Lookup and the
\* Vision Namer are each invoked at most once, the corrector at most once per hint,
\* and a call that failed is never followed by a second call of the same adapter.
C14_NoRetries ==
    /\ \A fn \in {"download", "ocr", "plantnet", "vision"} : Cardinality(CallsOf(fn)) <= 1
    /\ \A i, j \in CallsOf("corrector") : calls[i].hint = calls[j].hint => i = j
    /\ \A i, j \in DOMAIN calls :
          (i < j /\ (calls[i].raised \/ ~Truthy(calls[i].ret)))
              => calls[j].fn # calls[i].fn

C14_Witness ==
    /\ Finished
    /\ Cardinality(CallsOf("download")) = 1
    /\ Cardinality(CallsOf("ocr")) = 1
    /\ Cardinality(CallsOf("corrector")) = 1
    /\ Cardinality(CallsOf("plantnet")) = 1
    /\ Cardinality(CallsOf("vision")) = 1
    /\ \A i \in TierCalls : ~ResolvedCall(calls[i])
    /\ \E i \in CallsOf("plantnet") : calls[i].raised

\* C15: the corrector is never invoked with an empty hint; with a missing or generic
\* file name and an OCR result that is empty or failed there is no hint, the
\* corrector is not invoked and Species Lookup is the call that follows OCR.
C15_NoEmptyHint ==
    /\ \A i \in CallsOf("corrector") : calls[i].hint # <<>> /\ calls[i].src # "none"
    /\ \A i \in CallsOf("ocr") :
          ~Truthy(calls[i].ret) =>
              /\ CallsOf("corrector") = {}
              /\ pc \in {"vision", "exhausted", "sink", "done"}
                    => (Len(calls) > i /\ calls[i + 1].fn = "plantnet")

C15_Witness ==
    /\ Finished
    /\ image_name = Str(<<"I", "M", "G", "_", "2", "0", "3", "1", ".", "j", "p", "g">>)
    /\ env.ocr.kind = "none"
    /\ CallsOf("corrector") = {}
    /\ CallsOf("vision") = {}
    /\ \E i \in CallsOf("plantnet") : ResolvedCall(calls[i]) /\ Resolution = calls[i].ret

\* the text contains the word, whatever the case of the letters of the text
ContainsNoCase(word, text) ==
    \E i \in 1..(Len(text) - Len(word) + 1) :
        \A k \in 1..Len(word) : lowerChar(text[i + k - 1]) = word[k]

\* the denylist in the words of the claim
ClaimedDenylist ==
    { <<"s", "c", "r", "e", "e", "n", "s", "h", "o", "t">>,
      <<"c", "a", "m", "e", "r", "a">>,
      <<"p", "h", "o", "t", "o">> }

\* C16, as claimed: a text is valid if and only if it is non-empty, shorter than 100
\* characters and contains none of screenshot, camera, photo in any case.
C16_ValidityAsClaimed ==
    validity # "unchecked" =>
        (validity = "valid" <=>
            /\ extracted_text # <<>>
            /\ Len(extracted_text) < 100
            /\ \A w \in ClaimedDenylist : ~ContainsNoCase(w, extracted_text))

\* C16, amended: a text is valid if and only if it has at least 3 and at most 100
\* characters and contains none of screenshot, image, photo, ### and ??? in any case.
C16_ValidityPolicy ==
    validity # "unchecked" =>
        (validity = "valid" <=>
            /\ Len(extracted_text) >= 3
            /\ Len(extracted_text) <= 100
            /\ \A w \in { <<"s", "c", "r", "e", "e", "n", "s", "h", "o", "t">>,
                          <<"i", "m", "a", "g", "e">>, <<"p", "h", "o", "t", "o">>,
                          <<"#", "#", "#">>, <<"?", "?", "?">> } :
                  ~ContainsNoCase(w, extracted_text))

C16_Witness ==
    /\ validity = "valid"
    /\ Len(extracted_text) = 100
    /\ ContainsNoCase(<<"c", "a", "m", "e", "r", "a">>, extracted_text)

\* C18: a resolved name is never overwritten: from the moment a tier call has
\* returned a resolved name, final_result_string is that name, and it is what the
\* sink is handed; the terminal string and the critical-error strings are the
\* Resolution only of runs in which no tier resolved.
C18_ResolvedNeverOverwritten ==
    /\ \A i \in TierCalls :
          ResolvedCall(calls[i]) =>
              /\ final_result_string = calls[i].ret
              /\ \A k \in DOMAIN handed : handed[k] = calls[i].ret
    /\ (Finished /\ (Resolution = Str(ExhaustionString) \/ IsCritical(Resolution)))
           => \A i \in TierCalls : ~ResolvedCall(calls[i])

C18_Witness ==
    /\ Finished
    /\ \E i \in CallsOf("plantnet") :
          /\ ResolvedCall(calls[i])
          /\ Resolution = calls[i].ret
          /\ \E j \in CallsOf("corrector") : j < i /\ ~ResolvedCall(calls[j])
    /\ env.vision.kind = "noconfig"

\* C19: the Vision Namer's answer is adopted without a sentinel test: when it is
\* reached and returns non-empty text, that text, the word Unknown included, is the
\* Resolution; the terminal string is the Resolution only when the Vision Namer was
\* reached and its answer was empty or its call failed.
C19_VisionAdoptedUnchecked ==
    /\ \A i \in CallsOf("vision") :
          (env.vision.kind = "text" /\ strip(env.vision.text) # <<>>) =>
              /\ calls[i].ret = Str(strip(env.vision.text))
              /\ pc \in {"exhausted", "sink", "done"}
                    => final_result_string = Str(strip(env.vision.text))
              /\ Finished => Resolution = Str(strip(env.vision.text))
    /\ (Finished /\ Resolution = Str(ExhaustionString)) =>
           \E i \in CallsOf("vision") :
               \/ env.vision.kind = "error"
               \/ env.vision.kind = "text" /\ strip(env.vision.text) = <<>>

C19_Witness ==
    /\ Finished
    /\ CallsOf("vision") # {}
    /\ env.vision.kind = "text"
    /\ Contains(Unknown, env.vision.text)
    /\ Resolution = Str(Unknown)

====
